---- MODULE Spec2Model ----
(***************************************************************************)
(* Model of src/main.py: XServerAutoLogin, one renewal run.                *)
(*                                                                         *)
(* The run is a single sequential flow.  Every method of the class is one  *)
(* action; pc names the method that runs next.  The browser driver and the *)
(* mail server are the environment: each call made to them either returns  *)
(* or raises, and each read of page.url returns some URL.                  *)
(***************************************************************************)
EXTENDS Integers, Sequences, FiniteSets, TLC

(***************************************************************************)
(* Bounds                                                                  *)
(***************************************************************************)
\* largest number of messages the search returns
MaxMails == 2

(***************************************************************************)
(* URLs.  A URL is the sequence of its pieces; `in` on strings is          *)
(* containment of a contiguous run of pieces.                              *)
(***************************************************************************)
Host == "https://secure.xserver.ne.jp"

TARGET_URL == <<Host, "xapanel", "login", "xmgame">>
success_url == <<Host, "xapanel", "xmgame", "index">>
verification_fragment == <<"loginauth", "index">>
code_input_fragment == <<"loginauth", "smssend">>
expected_game_url == <<Host, "xmgame", "game", "index">>
extend_index_url == <<Host, "xmgame", "game", "freeplan", "extend", "index">>
extend_input_url == <<Host, "xmgame", "game", "freeplan", "extend", "input">>
extend_complete_url == <<Host, "xmgame", "game", "freeplan", "extend", "complete">>

\* the pages the panel can show, and each of them with a query string added
Query == "?foo=1"
PanelPages ==
    { TARGET_URL, success_url,
      TARGET_URL \o verification_fragment, TARGET_URL \o code_input_fragment,
      expected_game_url, extend_index_url, extend_input_url, extend_complete_url }
URLs == PanelPages \cup { u \o <<Query>> : u \in PanelPages }

\* Python `fragment in url`
\* (faulty variant: the whole URL has to equal the fragment)
ContainsStrict(fragment, u) == fragment = u
Contains(fragment, u) ==
    \E i \in 1..(Len(u) - Len(fragment) + 1) :
        SubSeq(u, i, i + Len(fragment) - 1) = fragment

\* Python `url == expected`
\* (faulty variant: containment, as in the other checks)
EqualsLoose(u, expected) == Contains(expected, u)
Equals(u, expected) == u = expected

(***************************************************************************)
(* Exceptions.  Every failure of a driver or mail call is a subclass of    *)
(* Python's Exception.                                                     *)
(***************************************************************************)
DriverErrors == {"TimeoutError", "Error"}
MailErrors == {"IMAP4.error", "OSError"}
DecodeErrors == {"LookupError"}
ExceptionClasses == DriverErrors \cup MailErrors \cup DecodeErrors \cup {"Exception"}

DriverOutcomes == {"ok"} \cup DriverErrors

None == "None"
NoCode == <<>>
OldDates == {"2025-01-10"}
NewDates == {"2025-01-13"}

(***************************************************************************)
(* State                                                                   *)
(***************************************************************************)
VARIABLES
    pc,                 \* the method that runs next
    cfg,                \* which configuration values are set
    browser,            \* self.browser: None, or the browser and whether it is open
    context,            \* self.context
    page,               \* self.page
    screenshot_count,   \* self.screenshot_count
    checked,            \* the last read of self.page.url and what it was compared with
    renewal_status,     \* self.renewal_status
    old_expiry_time,    \* self.old_expiry_time
    new_expiry_time,    \* self.new_expiry_time
    mail,               \* the IMAP connection of the poller: none, open, closed
    mail_ids,           \* the messages the search returned that are not examined yet
    verification_code,  \* what get_verification_code_from_imap returned
    code_field,         \* the text typed into the auth_code input
    exc,                \* the exception propagating out of run(), if any
    escaped,            \* an exception left run()
    log                 \* what the run did, in order

session == <<browser, context, page>>
outcome == <<renewal_status, old_expiry_time, new_expiry_time>>
mailbox == <<mail, mail_ids, verification_code>>
vars == <<pc, cfg, browser, context, page, screenshot_count, checked, renewal_status,
          old_expiry_time, new_expiry_time, mail, mail_ids, verification_code,
          code_field, exc, escaped, log>>

\* an entry of the log: what was done, to what, and whether it went through
Ev(ev, what, ok) == [ev |-> ev, what |-> what, ok |-> ok]
Did(ev, what) == Ev(ev, what, TRUE)
Tried(ev, what, o) == Ev(ev, what, o = "ok")

\* a read of page.url and the comparison made with it
Check(name, u, passed) == [name |-> name, url |-> u, passed |-> passed]

Has(e) == \E i \in DOMAIN log : log[i] = e
Count(ev, what) == Cardinality({ i \in DOMAIN log : log[i].ev = ev /\ log[i].what = what })
CountOk(ev, what) ==
    Cardinality({ i \in DOMAIN log : log[i].ev = ev /\ log[i].what = what /\ log[i].ok })

ConfigKeys == {"email", "password", "imap_user", "imap_password", "imap_server"}

Init ==
    /\ pc = "validate_config"
    /\ cfg \in [ConfigKeys -> BOOLEAN]
    /\ browser = None
    /\ context = None
    /\ page = None
    /\ screenshot_count = 0
    /\ checked = Check("none", <<>>, FALSE)
    /\ renewal_status = "Unknown"
    /\ old_expiry_time = None
    /\ new_expiry_time = None
    /\ mail = "none"
    /\ mail_ids = <<>>
    /\ verification_code = NoCode
    /\ code_field = <<>>
    /\ exc = None
    /\ escaped = FALSE
    /\ log = <<>>

(***************************************************************************)
(* 1. Browser management                                                   *)
(***************************************************************************)
\* the exception classes the `except Exception` of take_screenshot catches
\* (faulty variant: no try around the screenshot)
take_screenshot_catches_none == {}
take_screenshot_catches == ExceptionClasses

\* take_screenshot: the events it adds to the log (none when there is no page)
take_screenshot(step_name) ==
    IF page # None THEN <<Did("shot", step_name)>> ELSE <<>>

\* validate_config, lines 160-172: every required value is set
\* (faulty variant: the IMAP values are not looked at)
validate_config_lenient(c) == c["email"] /\ c["password"]
validate_config_result(c) ==
    /\ c["email"] /\ c["password"]
    /\ c["imap_user"] /\ c["imap_password"] /\ c["imap_server"]

validate_config ==
    /\ pc = "validate_config"
    /\ pc' = IF validate_config_result(cfg) THEN "setup_browser" ELSE "done"
    /\ log' = Append(log, Ev("config", "validate", validate_config_result(cfg)))
    /\ UNCHANGED <<cfg, session, screenshot_count, checked, outcome, mailbox,
                   code_field, exc, escaped>>

\* setup_browser: start, launch, new_context, new_page, stealth; the first
\* call that raises ends it with False, and what was created stays created
SetupSteps == <<"start", "launch", "new_context", "new_page", "stealth">>
setup_browser ==
    /\ pc = "setup_browser"
    /\ \E failAt \in 1..(Len(SetupSteps) + 1) :
        LET reached(s) == \E i \in 1..(failAt - 1) : SetupSteps[i] = s
        IN  /\ browser' = IF reached("launch") THEN "open" ELSE None
            /\ context' = IF reached("new_context") THEN "open" ELSE None
            /\ page' = IF reached("new_page") THEN "open" ELSE None
            /\ log' = log
                 \o (IF reached("launch") THEN <<Did("create", "browser")>> ELSE <<>>)
                 \o (IF reached("new_context") THEN <<Did("create", "context")>> ELSE <<>>)
                 \o <<Ev("setup", "browser", failAt > Len(SetupSteps))>>
            /\ pc' = IF failAt > Len(SetupSteps) THEN "navigate_to_login" ELSE "done"
    /\ UNCHANGED <<cfg, screenshot_count, checked, outcome, mailbox, code_field, exc, escaped>>

\* the exception classes the `except Exception` of cleanup catches
\* (faulty variant: no try around the two close calls)
cleanup_catches_none == {}
cleanup_catches == ExceptionClasses

\* cleanup: close the context, then the browser; the first close that raises
\* skips the rest
cleanup ==
    /\ pc = "cleanup"
    /\ \E oc \in DriverOutcomes, ob \in DriverOutcomes :
        LET closeCtx == context # None
            ctxRaised == closeCtx /\ oc # "ok"
            closeBrw == ~ctxRaised /\ browser # None
            brwRaised == closeBrw /\ ob # "ok"
            raised == IF ctxRaised THEN oc ELSE IF brwRaised THEN ob ELSE None
        IN  /\ context' = IF closeCtx /\ ~ctxRaised THEN "closed" ELSE context
            /\ browser' = IF closeBrw /\ ~brwRaised THEN "closed" ELSE browser
            /\ log' = log \o <<Did("run", "cleanup")>>
                 \o (IF closeCtx THEN <<Tried("close", "context", oc)>> ELSE <<>>)
                 \o (IF closeBrw THEN <<Tried("close", "browser", ob)>> ELSE <<>>)
            \* an exception cleanup does not catch replaces the pending one and
            \* leaves the finally block at once
            /\ IF raised # None /\ raised \notin cleanup_catches
               THEN /\ exc' = raised
                    /\ pc' = "run_exit"
               ELSE /\ exc' = exc
                    /\ pc' = "run_finally"
    /\ UNCHANGED <<cfg, page, screenshot_count, checked, outcome, mailbox, code_field, escaped>>

\* run(), lines 829-853: where the run goes when a top-level step returned
\* result; a step that returns False makes run() raise into its catch-all
\* (faulty variant: a step that failed is run again)
run_next_retries(step, result) ==
    CASE step = "navigate_to_login" -> IF result THEN "perform_login" ELSE step
      [] step = "perform_login" -> IF result THEN "handle_verification_page" ELSE step
      [] step = "handle_verification_page" ->
            IF result THEN "handle_login_result" ELSE "get_verification_code_from_imap"
      [] step = "handle_login_result" ->
            IF result THEN "run_complete" ELSE "run_login_failed"
\* (faulty variant: the result of a step is ignored)
run_next_never_raises(step, result) ==
    CASE step = "navigate_to_login" -> "perform_login"
      [] step = "perform_login" -> "handle_verification_page"
      [] step = "handle_verification_page" -> "handle_login_result"
      [] step = "handle_login_result" -> "run_complete"
run_next(step, result) ==
    CASE step = "navigate_to_login" -> IF result THEN "perform_login" ELSE "run_except"
      [] step = "perform_login" ->
            IF result THEN "handle_verification_page" ELSE "run_except"
      [] step = "handle_verification_page" ->
            IF result THEN "handle_login_result" ELSE "run_except"
      [] step = "handle_login_result" ->
            IF result THEN "run_complete" ELSE "run_login_failed"

(***************************************************************************)
(* 2. Navigation                                                           *)
(***************************************************************************)
navigate_to_login ==
    /\ pc = "navigate_to_login"
    /\ \E o \in DriverOutcomes :
        IF o = "ok"
        THEN /\ log' = log \o <<Did("goto", "login")>> \o take_screenshot("login_page_loaded")
             /\ screenshot_count' = screenshot_count + Len(take_screenshot("login_page_loaded"))
             /\ pc' = run_next("navigate_to_login", TRUE)
        ELSE /\ log' = log \o <<Tried("goto", "login", o)>>
             /\ screenshot_count' = screenshot_count
             /\ pc' = run_next("navigate_to_login", FALSE)
    /\ UNCHANGED <<cfg, session, checked, outcome, mailbox, code_field, exc, escaped>>

(***************************************************************************)
(* 3. Login form                                                           *)
(***************************************************************************)
\* perform_login with find_login_form and human_type: a form that is not
\* found, or a fill, type or click that raises, returns False
perform_login ==
    /\ pc = "perform_login"
    /\ \E form \in DriverOutcomes, typing \in DriverOutcomes, click \in DriverOutcomes :
        /\ log' = log \o <<Tried("find", "login_form", form)>>
             \o (IF form = "ok" /\ typing = "ok"
                 THEN <<Tried("click", "login_submit", click)>> ELSE <<>>)
        /\ pc' = run_next("perform_login", form = "ok" /\ typing = "ok" /\ click = "ok")
    /\ UNCHANGED <<cfg, session, screenshot_count, checked, outcome, mailbox,
                   code_field, exc, escaped>>

(***************************************************************************)
(* 4. Verification code                                                    *)
(***************************************************************************)
\* handle_verification_page, lines 280-313
handle_verification_page ==
    /\ pc = "handle_verification_page"
    /\ \E u \in URLs, wait \in DriverOutcomes, click \in DriverOutcomes :
        LET passed == Contains(verification_fragment, u)
        IN  /\ checked' = Check("verification", u, passed)
            /\ screenshot_count' =
                 screenshot_count + Len(take_screenshot("checking_verification_page"))
            /\ log' = log \o take_screenshot("checking_verification_page")
                 \o <<Ev("check", "verification", passed)>>
                 \o (IF passed THEN <<Tried("find", "send_code", wait)>> ELSE <<>>)
                 \o (IF passed /\ wait = "ok"
                     THEN <<Tried("click", "send_code", click)>> ELSE <<>>)
            /\ pc' = IF ~passed THEN run_next("handle_verification_page", TRUE)
                     ELSE IF wait = "ok" /\ click = "ok" THEN "handle_code_input_page"
                     ELSE run_next("handle_verification_page", FALSE)
    /\ UNCHANGED <<cfg, session, outcome, mailbox, code_field, exc, escaped>>

\* lines 347-349: what handle_code_input_page returns when the URL is not the
\* code-entry page
\* (faulty variant: a missing code-entry page fails the login)
no_code_page_result_fails == FALSE
no_code_page_result == TRUE

\* handle_code_input_page up to the call of the poller, lines 315-335, 344-353
handle_code_input_page ==
    /\ pc = "handle_code_input_page"
    /\ \E u \in URLs, wait \in DriverOutcomes :
        LET passed == Contains(code_input_fragment, u)
        IN  /\ checked' = Check("code_input", u, passed)
            /\ log' = log \o <<Ev("check", "code_input", passed)>>
                 \o (IF passed THEN <<Tried("find", "code_box", wait)>> ELSE <<>>)
            /\ pc' = IF ~passed
                     THEN run_next("handle_verification_page", no_code_page_result)
                     ELSE IF wait = "ok" THEN "get_verification_code_from_imap"
                     ELSE run_next("handle_verification_page", FALSE)
    /\ UNCHANGED <<cfg, session, screenshot_count, outcome, mailbox, code_field,
                   exc, escaped>>

\* handle_code_input_page after the poller returned, lines 338-342
handle_code_input_page_resume ==
    /\ pc = "handle_code_input_page_resume"
    /\ pc' = IF verification_code # NoCode THEN "input_verification_code"
             ELSE run_next("handle_verification_page", FALSE)
    /\ log' = Append(log, Ev("poller", "returned", verification_code # NoCode))
    /\ UNCHANGED <<cfg, session, screenshot_count, checked, outcome, mailbox, code_field,
                   exc, escaped>>

\* human_type: the characters typed when the k-th page.type is the first to
\* raise (k > Len(text): none raises)
\* (faulty variant: the first character is lost)
human_type_skip_first(text, k) ==
    SubSeq(text, 2, IF k > Len(text) THEN Len(text) ELSE k - 1)
human_type(text, k) ==
    SubSeq(text, 1, IF k > Len(text) THEN Len(text) ELSE k - 1)

\* input_verification_code, lines 355-385
input_verification_code ==
    /\ pc = "input_verification_code"
    /\ \E fill \in DriverOutcomes, k \in 1..(Len(verification_code) + 1),
          wait \in DriverOutcomes, click \in DriverOutcomes :
        LET typedAll == fill = "ok" /\ k > Len(verification_code)
            done == typedAll /\ wait = "ok" /\ click = "ok"
            shot == IF done THEN <<>> ELSE take_screenshot("verification_input_failed")
        IN  /\ code_field' = IF fill = "ok" THEN human_type(verification_code, k)
                             ELSE code_field
            /\ log' = log
                 \o (IF fill = "ok" THEN <<Ev("type", "code", typedAll)>> ELSE <<>>)
                 \o (IF typedAll /\ wait = "ok"
                     THEN <<Tried("click", "code_submit", click)>> ELSE <<>>)
                 \o shot
            /\ screenshot_count' = screenshot_count + Len(shot)
            /\ pc' = run_next("handle_verification_page", done)
    /\ UNCHANGED <<cfg, session, checked, outcome, mailbox, exc, escaped>>

(***************************************************************************)
(* Mail.  A text is a sequence of pieces; a piece is either plain words or *)
(* one occurrence of the label, whitespace and colon with the run of       *)
(* digits that follows it.                                                 *)
(***************************************************************************)
Words == [label |-> FALSE, digits |-> <<>>]
Labelled(run) == [label |-> TRUE, digits |-> run]

\* the subject fragment of line 57, as one piece of text
XSERVER_SUBJECT == "login-code-notice"

\* an encoded word of a Subject header
Part(text, enc) == [text |-> text, enc |-> enc]
KnownCharsets == {"utf-8", "iso-2022-jp"}

\* a message as fetch returns it: the status of the fetch ("raise": the
\* fetch raises), the Subject header, the charset and the text of the body
Msg(status, subject, charset, body) ==
    [status |-> status, subject |-> subject, charset |-> charset, body |-> body]

MatchingSubject == <<Part(<<"Re:">>, None), Part(<<XSERVER_SUBJECT>>, "iso-2022-jp")>>
OtherSubject == <<Part(<<"newsletter">>, "utf-8")>>
BadSubject == <<Part(<<XSERVER_SUBJECT>>, "x-unknown")>>

CodeA == <<1, 2, 3, 4, 5>>
CodeB == <<6, 7, 8, 9>>
ShortRun == <<1, 2, 3>>
LongRun == <<1, 2, 3, 4, 5, 6, 7, 8, 9>>

Messages ==
    { Msg("raise", OtherSubject, "utf-8", <<>>),
      Msg("NO", MatchingSubject, "utf-8", <<Labelled(CodeA)>>),
      Msg("OK", BadSubject, "utf-8", <<Labelled(CodeA)>>),
      Msg("OK", OtherSubject, "utf-8", <<Labelled(CodeB)>>),
      Msg("OK", MatchingSubject, "x-unknown", <<Labelled(CodeA)>>),
      Msg("OK", MatchingSubject, None, <<>>),
      Msg("OK", MatchingSubject, "utf-8", <<Words, Labelled(ShortRun)>>),
      Msg("OK", MatchingSubject, "utf-8", <<Words, Labelled(CodeA), Labelled(CodeB)>>),
      Msg("OK", MatchingSubject, None, <<Labelled(ShortRun), Labelled(CodeB)>>),
      Msg("OK", MatchingSubject, "utf-8", <<Labelled(LongRun)>>) }

\* the results a search can give: the messages from the sender, oldest first
RECURSIVE SeqsUpTo(_, _)
SeqsUpTo(S, n) ==
    IF n = 0 THEN {<<>>}
    ELSE LET shorter == SeqsUpTo(S, n - 1)
         IN  shorter \cup { Append(q, m) : q \in shorter, m \in S }
SearchResults == SeqsUpTo(Messages, MaxMails)

\* the regular expression of _extract_verification_code on one occurrence:
\* (\d{4,8}) takes the longest run of 4 to 8 digits from the start of the run
RegexMatches(piece) == piece.label /\ Len(piece.digits) >= 4
RegexGroup(piece) ==
    SubSeq(piece.digits, 1, IF Len(piece.digits) > 8 THEN 8 ELSE Len(piece.digits))

RECURSIVE findall(_)
findall(mail_content) ==
    IF mail_content = <<>> THEN <<>>
    ELSE (IF RegexMatches(Head(mail_content))
          THEN <<RegexGroup(Head(mail_content))>> ELSE <<>>)
         \o findall(Tail(mail_content))

\* _extract_verification_code, lines 389-408
\* (faulty variant: the last valid code instead of the first)
_extract_verification_code_last(mail_content) ==
    LET valid_codes == SelectSeq(findall(mail_content),
                                 LAMBDA code : 4 <= Len(code) /\ Len(code) <= 8)
    IN  IF valid_codes # <<>> THEN valid_codes[Len(valid_codes)] ELSE NoCode
_extract_verification_code(mail_content) ==
    LET valid_codes == SelectSeq(findall(mail_content),
                                 LAMBDA code : 4 <= Len(code) /\ Len(code) <= 8)
    IN  IF valid_codes # <<>> THEN valid_codes[1] ELSE NoCode

\* decode_subject, lines 440-448: the decoded parts joined; an encoded word
\* with an unknown charset makes bytes.decode raise LookupError
RECURSIVE JoinParts(_)
JoinParts(parts) ==
    IF parts = <<>> THEN <<>> ELSE Head(parts).text \o JoinParts(Tail(parts))
decode_subject_raises(raw_subject) ==
    \E i \in DOMAIN raw_subject :
        raw_subject[i].enc # None /\ raw_subject[i].enc \notin KnownCharsets
decode_subject(raw_subject) == JoinParts(raw_subject)

\* lines 461: self.xserver_subject.strip() not in subject
\* (faulty variant: equality instead of containment)
subject_matches_exact(subject) == subject = <<XSERVER_SUBJECT>>
subject_matches(subject) == Contains(<<XSERVER_SUBJECT>>, subject)

\* lines 467-476: decoding the body raises LookupError on an unknown charset
body_decode_raises(msg) == msg.charset # None /\ msg.charset \notin KnownCharsets

\* the exception classes the except clauses of the poller catch, lines 497-504
\* (faulty variant: only the first except clause)
poller_catches_imap_only == {"IMAP4.error"}
poller_catches == {"IMAP4.error"} \cup ExceptionClasses

\* the poller returns: code is its result; an exception it does not catch is
\* caught by handle_code_input_page (line 344), which returns False
poller_return(code, raised) ==
    /\ verification_code' = code
    /\ mail_ids' = <<>>
    /\ pc' = IF raised # None /\ raised \notin poller_catches
             THEN run_next("handle_verification_page", FALSE)
             ELSE "handle_code_input_page_resume"

\* lines 497-504: the event of an exception reaching the except clauses of
\* the poller, and whether one of them catches it
except_events(raised) ==
    IF raised # None THEN <<Ev("poller", "except", raised \in poller_catches)>> ELSE <<>>

\* line 438: one event for each message the search found
found_events(ids) == [i \in 1..Len(ids) |-> Did("imap", "found")]

\* the loop over reversed(mail_ids): what is left after the newest message;
\* `continue` goes on with it
\* (faulty variant: break instead of continue)
next_ids_break(ids) == <<>>
next_ids(ids) == SubSeq(ids, 1, Len(ids) - 1)

\* mail.logout(): the events and the connection after it
\* (faulty variant: a second logout, as from an added finally clause)
logout_events_twice(o) == <<Tried("imap", "logout", o), Tried("imap", "logout", o)>>
logout_events(o) == <<Tried("imap", "logout", o)>>
after_logout(o) == IF o = "ok" THEN "closed" ELSE mail

\* get_verification_code_from_imap up to the loop, lines 411-438
get_verification_code_from_imap ==
    /\ pc = "get_verification_code_from_imap"
    /\ \E connect \in {"ok", "OSError"}, login \in {"ok", "IMAP4.error"},
          select \in {"ok", "IMAP4.error"}, search \in {"OK", "NO", "IMAP4.error"},
          ids \in SearchResults, logout \in {"ok", "OSError"} :
        LET opened == connect = "ok"
            searched == opened /\ login = "ok" /\ select = "ok"
            early == searched /\ (search = "NO" \/ (search = "OK" /\ ids = <<>>))
            raised == IF ~opened THEN connect
                      ELSE IF login # "ok" THEN login
                      ELSE IF select # "ok" THEN select
                      ELSE IF search = "IMAP4.error" THEN search
                      ELSE IF early /\ logout # "ok" THEN logout
                      ELSE None
        IN  /\ log' = log \o <<Did("poller", "call"), Tried("imap", "connect", connect)>>
                 \o (IF opened THEN <<Tried("imap", "login", login)>> ELSE <<>>)
                 \o (IF opened /\ login = "ok"
                     THEN <<Tried("imap", "select", select)>> ELSE <<>>)
                 \o (IF searched
                     THEN <<Ev("imap", "search", search = "OK")>> ELSE <<>>)
                 \o (IF searched /\ search = "OK" THEN found_events(ids) ELSE <<>>)
                 \o (IF early THEN logout_events(logout) ELSE <<>>)
                 \o except_events(raised)
            /\ mail' = IF ~opened THEN "none"
                       ELSE IF early /\ logout = "ok" THEN "closed" ELSE "open"
            /\ IF searched /\ search = "OK" /\ ids # <<>>
               THEN /\ mail_ids' = ids
                    /\ pc' = "fetch_message"
                    /\ UNCHANGED verification_code
               ELSE poller_return(NoCode, raised)
    /\ UNCHANGED <<cfg, session, screenshot_count, checked, outcome, code_field, exc, escaped>>

\* one pass of the loop over reversed(mail_ids), lines 451-491, or its end,
\* lines 493-495
fetch_message ==
    /\ pc = "fetch_message"
    /\ \E logout \in {"ok", "OSError"} :
        IF mail_ids = <<>>
        THEN /\ log' = log \o logout_events(logout)
                  \o except_events(IF logout # "ok" THEN logout ELSE None)
             /\ mail' = after_logout(logout)
             /\ poller_return(NoCode, IF logout # "ok" THEN logout ELSE None)
        ELSE
            LET msg == mail_ids[Len(mail_ids)]
                rest == next_ids(mail_ids)
                fetched == Ev("imap", "fetch", msg.status = "OK")
            IN  IF msg.status = "raise"
                THEN /\ log' = log \o <<fetched>> \o except_events("IMAP4.error")
                     /\ mail' = mail
                     /\ poller_return(NoCode, "IMAP4.error")
                ELSE IF msg.status # "OK"
                THEN /\ log' = log \o <<fetched>>
                     /\ mail' = mail
                     /\ mail_ids' = rest
                     /\ UNCHANGED <<pc, verification_code>>
                ELSE IF decode_subject_raises(msg.subject)
                THEN /\ log' = log \o <<fetched>> \o except_events("LookupError")
                     /\ mail' = mail
                     /\ poller_return(NoCode, "LookupError")
                ELSE IF ~subject_matches(decode_subject(msg.subject))
                THEN /\ log' = log \o <<fetched, Ev("imap", "subject", FALSE)>>
                     /\ mail' = mail
                     /\ mail_ids' = rest
                     /\ UNCHANGED <<pc, verification_code>>
                ELSE IF body_decode_raises(msg)
                THEN /\ log' = log \o <<fetched, Did("imap", "subject")>>
                          \o except_events("LookupError")
                     /\ mail' = mail
                     /\ poller_return(NoCode, "LookupError")
                ELSE IF logout # "ok"
                THEN /\ log' = log \o <<fetched, Did("imap", "subject")>>
                          \o logout_events(logout) \o except_events(logout)
                     /\ mail' = after_logout(logout)
                     /\ poller_return(NoCode, logout)
                ELSE /\ log' = log \o <<fetched, Did("imap", "subject")>>
                          \o logout_events(logout)
                          \o (IF msg.body # <<>> THEN <<Did("extract", "code")>> ELSE <<>>)
                     /\ mail' = after_logout(logout)
                     /\ poller_return(IF msg.body = <<>> THEN NoCode
                                      ELSE _extract_verification_code(msg.body), None)
    /\ UNCHANGED <<cfg, session, screenshot_count, checked, outcome, code_field, exc, escaped>>

(***************************************************************************)
(* 5. Login result                                                         *)
(***************************************************************************)
\* a method that waits for a control and clicks it: the events, and whether
\* the click went through
click_events(what, wait, click) ==
    <<Tried("find", what, wait)>>
    \o (IF wait = "ok" THEN <<Tried("click", what, click)>> ELSE <<>>)
clicked_ok(wait, click) == wait = "ok" /\ click = "ok"

\* handle_login_result, the comparison with the success URL, lines 511-524
\* and 556-558
handle_login_result ==
    /\ pc = "handle_login_result"
    /\ \E current_url \in URLs :
        LET loggedIn == Equals(current_url, success_url)
        IN  /\ checked' = Check("post_login", current_url, loggedIn)
            /\ log' = log \o <<Ev("check", "post_login", loggedIn)>>
            /\ pc' = IF loggedIn THEN "handle_login_result_game"
                     ELSE run_next("handle_login_result", FALSE)
    /\ UNCHANGED <<cfg, session, screenshot_count, outcome, mailbox, code_field,
                   exc, escaped>>

\* lines 542-549: the renewal chain starts only from the game page; on any
\* other page handle_login_result just returns True
\* (faulty variant: the chain starts whatever the page)
after_game_check_continues(onGamePage) == "get_server_time_info"
after_game_check(onGamePage) ==
    IF onGamePage THEN "get_server_time_info" ELSE run_next("handle_login_result", TRUE)

\* handle_login_result, the game-management button, lines 526-555; every
\* method of the renewal chain it starts returns into it, and it returns True
handle_login_result_game ==
    /\ pc = "handle_login_result_game"
    /\ \E wait \in DriverOutcomes, click \in DriverOutcomes, final_url \in URLs :
        LET clicked == clicked_ok(wait, click)
            onGamePage == Contains(expected_game_url, final_url)
            shot == IF ~clicked THEN take_screenshot("game_button_error")
                    ELSE IF onGamePage THEN take_screenshot("game_page_loaded")
                    ELSE take_screenshot("game_page_redirect_failed")
        IN  /\ checked' = IF clicked THEN Check("game", final_url, onGamePage) ELSE checked
            /\ log' = log \o click_events("game", wait, click)
                 \o (IF clicked THEN <<Ev("check", "game", onGamePage)>> ELSE <<>>)
                 \o shot
            /\ screenshot_count' = screenshot_count + Len(shot)
            /\ pc' = IF clicked THEN after_game_check(onGamePage)
                     ELSE run_next("handle_login_result", TRUE)
    /\ UNCHANGED <<cfg, session, outcome, mailbox, code_field, exc, escaped>>

(***************************************************************************)
(* 6. Renewal                                                              *)
(***************************************************************************)
\* get_server_time_info, lines 568-605
get_server_time_info ==
    /\ pc = "get_server_time_info"
    /\ \E locate \in DriverOutcomes, expiry \in OldDates \cup {None} :
        /\ old_expiry_time' = IF locate = "ok" /\ expiry # None THEN expiry
                              ELSE old_expiry_time
        /\ log' = log \o <<Tried("read", "expiry", locate)>>
    /\ pc' = "click_upgrade_button"
    /\ UNCHANGED <<cfg, session, screenshot_count, checked, renewal_status, new_expiry_time,
                   mailbox, code_field, exc, escaped>>

\* click_upgrade_button, lines 613-629
click_upgrade_button ==
    /\ pc = "click_upgrade_button"
    /\ \E wait \in DriverOutcomes, click \in DriverOutcomes :
        /\ log' = log \o click_events("upgrade", wait, click)
        /\ pc' = IF clicked_ok(wait, click) THEN "verify_upgrade_page"
                 ELSE run_next("handle_login_result", TRUE)
    /\ UNCHANGED <<cfg, session, screenshot_count, checked, outcome, mailbox, code_field,
                   exc, escaped>>

\* lines 639-643 and 712-719: a page check that passed goes on with next,
\* one that failed ends the chain and handle_login_result returns True
\* (faulty variant: a check that failed makes handle_login_result return False)
verify_next_aborts(passed, next) ==
    IF passed THEN next ELSE run_next("handle_login_result", FALSE)
\* (faulty variant: the chain goes on whatever the check found)
verify_next_ignores(passed, next) == next
verify_next(passed, next) ==
    IF passed THEN next ELSE run_next("handle_login_result", TRUE)

\* verify_upgrade_page, lines 631-646
verify_upgrade_page ==
    /\ pc = "verify_upgrade_page"
    /\ \E current_url \in URLs :
        LET passed == Contains(extend_index_url, current_url)
        IN  /\ checked' = Check("extend_index", current_url, passed)
            /\ log' = log \o <<Ev("check", "extend_index", passed)>>
            /\ pc' = verify_next(passed, "check_extension_restriction")
    /\ UNCHANGED <<cfg, session, screenshot_count, outcome, mailbox, code_field,
                   exc, escaped>>

\* the exception classes the inner except of check_extension_restriction
\* catches, line 663
\* (faulty variant: only the timeout of the wait)
restriction_except_timeout_only == {"TimeoutError"}
restriction_except == ExceptionClasses

\* lines 656-666: where check_extension_restriction goes; raised is what the
\* wait or the read of the text raised, None when the message was read
\* (faulty variant: the extension is started whatever the probe found)
restriction_next_always(raised) == "perform_extension_operation"
restriction_next(raised) ==
    IF raised # None /\ raised \in restriction_except
    THEN "perform_extension_operation"
    ELSE run_next("handle_login_result", TRUE)

\* check_extension_restriction, lines 648-670
check_extension_restriction ==
    /\ pc = "check_extension_restriction"
    /\ \E wait \in DriverOutcomes, text \in DriverOutcomes :
        LET raised == IF wait # "ok" THEN wait ELSE IF text # "ok" THEN text ELSE None
        IN  /\ log' = log \o <<Tried("find", "restriction", wait)>>
                 \o (IF wait = "ok" THEN <<Tried("read", "restriction", text)>> ELSE <<>>)
            /\ renewal_status' = IF raised = None THEN "Unexpired" ELSE renewal_status
            /\ pc' = restriction_next(raised)
    /\ UNCHANGED <<cfg, session, screenshot_count, checked, old_expiry_time, new_expiry_time,
                   mailbox, code_field, exc, escaped>>

\* perform_extension_operation, lines 672-679
perform_extension_operation ==
    /\ pc = "perform_extension_operation"
    /\ log' = Append(log, Did("call", "perform_extension_operation"))
    /\ pc' = "click_extension_button"
    /\ UNCHANGED <<cfg, session, screenshot_count, checked, outcome, mailbox, code_field,
                   exc, escaped>>

\* click_extension_button, lines 681-702
click_extension_button ==
    /\ pc = "click_extension_button"
    /\ \E wait \in DriverOutcomes, click \in DriverOutcomes :
        /\ log' = log \o click_events("extend", wait, click)
        /\ pc' = IF clicked_ok(wait, click) THEN "verify_extension_input_page"
                 ELSE run_next("handle_login_result", TRUE)
    /\ UNCHANGED <<cfg, session, screenshot_count, checked, outcome, mailbox, code_field,
                   exc, escaped>>

\* verify_extension_input_page, lines 704-723
verify_extension_input_page ==
    /\ pc = "verify_extension_input_page"
    /\ \E current_url \in URLs :
        LET passed == Contains(extend_input_url, current_url)
            shot == IF passed THEN take_screenshot("extension_input_page") ELSE <<>>
        IN  /\ checked' = Check("extend_input", current_url, passed)
            /\ log' = log \o <<Ev("check", "extend_input", passed)>> \o shot
            /\ screenshot_count' = screenshot_count + Len(shot)
            /\ pc' = verify_next(passed, "click_confirmation_button")
    /\ UNCHANGED <<cfg, session, outcome, mailbox, code_field, exc, escaped>>

\* click_confirmation_button, lines 725-745
click_confirmation_button ==
    /\ pc = "click_confirmation_button"
    /\ \E wait \in DriverOutcomes, click \in DriverOutcomes :
        /\ log' = log \o click_events("confirm", wait, click)
        /\ pc' = IF clicked_ok(wait, click) THEN "click_final_extension_button"
                 ELSE run_next("handle_login_result", TRUE)
    /\ UNCHANGED <<cfg, session, screenshot_count, checked, outcome, mailbox, code_field,
                   exc, escaped>>

\* click_final_extension_button, lines 747-767
click_final_extension_button ==
    /\ pc = "click_final_extension_button"
    /\ \E wait \in DriverOutcomes, click \in DriverOutcomes :
        /\ log' = log \o click_events("final_extend", wait, click)
        /\ pc' = IF clicked_ok(wait, click) THEN "verify_extension_complete"
                 ELSE run_next("handle_login_result", TRUE)
    /\ UNCHANGED <<cfg, session, screenshot_count, checked, outcome, mailbox, code_field,
                   exc, escaped>>

\* the status verify_extension_complete sets, lines 777-785
\* (faulty variant: Success needs the new date to be read)
status_after_extend_needs_date(passed, date) ==
    IF passed /\ date # None THEN "Success" ELSE "Failed"
status_after_extend(passed, date) == IF passed THEN "Success" ELSE "Failed"

\* verify_extension_complete with get_new_expiry_time, lines 769-810
verify_extension_complete ==
    /\ pc = "verify_extension_complete"
    /\ \E current_url \in URLs, wait \in DriverOutcomes, text \in DriverOutcomes,
          expiry \in NewDates \cup {None} :
        LET passed == Contains(extend_complete_url, current_url)
            shot == IF passed THEN take_screenshot("extension_complete")
                    ELSE take_screenshot("extension_failed")
            date == IF wait = "ok" /\ text = "ok" THEN expiry ELSE None
        IN  /\ checked' = Check("extend_complete", current_url, passed)
            /\ renewal_status' = status_after_extend(passed, date)
            /\ new_expiry_time' = IF passed /\ date # None THEN date ELSE new_expiry_time
            /\ log' = log \o <<Ev("check", "extend_complete", passed)>> \o shot
                 \o (IF passed THEN <<Ev("read", "new_expiry", date # None)>> ELSE <<>>)
            /\ screenshot_count' = screenshot_count + Len(shot)
    /\ pc' = run_next("handle_login_result", TRUE)
    /\ UNCHANGED <<cfg, session, old_expiry_time, mailbox, code_field, exc, escaped>>

(***************************************************************************)
(* 7. run()                                                                *)
(***************************************************************************)
\* lines 853: every step returned True
run_complete ==
    /\ pc = "run_complete"
    /\ log' = Append(log, Did("run", "completed"))
    /\ pc' = "cleanup"
    /\ UNCHANGED <<cfg, session, screenshot_count, checked, outcome, mailbox,
                   code_field, exc, escaped>>

\* lines 843-851: handle_login_result returned False
run_login_failed ==
    /\ pc = "run_login_failed"
    /\ \E current_url \in URLs :
        LET stillOnCodePage == Contains(code_input_fragment, current_url)
            shot == IF stillOnCodePage
                    THEN take_screenshot("verification_code_error")
                    ELSE take_screenshot("login_failed")
        IN  /\ checked' = Check("diagnosis", current_url, stillOnCodePage)
            /\ log' = log \o shot
            /\ screenshot_count' = screenshot_count + Len(shot)
    /\ pc' = "run_except"
    /\ UNCHANGED <<cfg, session, outcome, mailbox, code_field, exc, escaped>>

\* lines 855-857: the catch-all of run()
run_except ==
    /\ pc = "run_except"
    /\ \E o \in DriverOutcomes :
        /\ log' = log \o <<Did("run", "caught")>> \o take_screenshot("runtime_error")
        /\ screenshot_count' = screenshot_count + Len(take_screenshot("runtime_error"))
        /\ exc' = IF o # "ok" /\ o \notin take_screenshot_catches THEN o ELSE None
    /\ pc' = "cleanup"
    /\ UNCHANGED <<cfg, session, checked, outcome, mailbox, code_field, escaped>>

\* lines 861-869: the rest of the finally block, the summary
run_finally ==
    /\ pc = "run_finally"
    /\ log' = Append(log, Did("run", "summary"))
    /\ pc' = "run_exit"
    /\ UNCHANGED <<cfg, session, screenshot_count, checked, outcome, mailbox,
                   code_field, exc, escaped>>

\* run() returns, or the pending exception leaves it
run_exit ==
    /\ pc = "run_exit"
    /\ escaped' = (exc # None)
    /\ pc' = "done"
    /\ UNCHANGED <<cfg, session, screenshot_count, checked, outcome, mailbox,
                   code_field, exc, log>>

Next ==
    \/ validate_config
    \/ setup_browser
    \/ navigate_to_login
    \/ perform_login
    \/ handle_verification_page
    \/ handle_code_input_page
    \/ handle_code_input_page_resume
    \/ input_verification_code
    \/ get_verification_code_from_imap
    \/ fetch_message
    \/ handle_login_result
    \/ handle_login_result_game
    \/ get_server_time_info
    \/ click_upgrade_button
    \/ verify_upgrade_page
    \/ check_extension_restriction
    \/ perform_extension_operation
    \/ click_extension_button
    \/ verify_extension_input_page
    \/ click_confirmation_button
    \/ click_final_extension_button
    \/ verify_extension_complete
    \/ run_login_failed
    \/ run_complete
    \/ run_except
    \/ cleanup
    \/ run_finally
    \/ run_exit

Spec == Init /\ [][Next]_vars

\* every driver and mail call returns or raises (element waits are bounded by
\* wait_timeout), so the single flow of run() always takes its next step
FairSpec == Spec /\ WF_vars(Next)

(***************************************************************************)
(* The extractor on its own: _extract_verification_code applied to the     *)
(* body of one message.                                                    *)
(***************************************************************************)
\* largest number of pieces of a body
MaxPieces == 2

\* runs of digits of the lengths around the limits of \d{4,8}
RunLengths == {3, 4, 8, 9}
RunStarts == {1, 6}
Run(start, n) == [i \in 1..n |-> (start + i - 1) % 10]
Pieces == {Words} \cup { Labelled(Run(d, n)) : d \in RunStarts, n \in RunLengths }
Bodies == SeqsUpTo(Pieces, MaxPieces)

ExtractInit ==
    /\ pc = "extract"
    /\ mail_ids \in { <<Msg("OK", MatchingSubject, "utf-8", b)>> : b \in Bodies }
    /\ cfg = [k \in ConfigKeys |-> TRUE]
    /\ browser = None
    /\ context = None
    /\ page = None
    /\ screenshot_count = 0
    /\ checked = Check("none", <<>>, FALSE)
    /\ renewal_status = "Unknown"
    /\ old_expiry_time = None
    /\ new_expiry_time = None
    /\ mail = "closed"
    /\ verification_code = NoCode
    /\ code_field = <<>>
    /\ exc = None
    /\ escaped = FALSE
    /\ log = <<>>

\* line 485: the call of the extractor on the decoded body
extract_code ==
    /\ pc = "extract"
    /\ verification_code' = _extract_verification_code(mail_ids[1].body)
    /\ log' = Append(log, Did("extract", "code"))
    /\ pc' = "extracted"
    /\ UNCHANGED <<cfg, session, screenshot_count, checked, outcome, mail, mail_ids,
                   code_field, exc, escaped>>

ExtractNext == extract_code

ExtractSpec == ExtractInit /\ [][ExtractNext]_vars

(***************************************************************************)
(* Properties                                                              *)
(***************************************************************************)
Returned == pc = "done"
\* the run is in or past the cleanup of the finally block
Unwinding == pc \in {"cleanup", "run_finally", "run_exit", "done"}
Index(e) == CHOOSE i \in DOMAIN log : log[i] = e
Before(e1, e2) == Has(e1) /\ Has(e2) /\ Index(e1) < Index(e2)

Caught == Has(Did("run", "caught"))
Completed == Has(Did("run", "completed"))
RenewalControls == {"game", "upgrade", "extend", "confirm", "final_extend"}
ExtensionControls == {"extend", "confirm", "final_extend"}
\* no control of the set was waited for or clicked
Untouched(controls) ==
    \A w \in controls : Count("find", w) = 0 /\ Count("click", w) = 0

\* C1: when run() has returned, every browser and every browser context that
\* was created has been closed exactly once.
C1_CreatedClosedOnce ==
    Returned =>
        /\ Has(Did("create", "browser")) => CountOk("close", "browser") = 1
        /\ Has(Did("create", "context")) => CountOk("close", "context") = 1

\* C2: when run() has returned, the final summary has been printed, whatever
\* the exit path.
C2_SummaryPrinted == Returned => Has(Did("run", "summary"))

\* C3: no error escapes run(); once the run unwinds, it either completed or
\* its catch-all fired, and the catch-all attempted the runtime_error
\* screenshot before cleanup started; and run() returns.
C3_Contained ==
    /\ ~escaped
    /\ exc = None
    /\ (Unwinding /\ Has(Ev("setup", "browser", TRUE))) =>
          /\ Has(Did("run", "cleanup")) \/ pc = "cleanup"
          /\ Caught # Completed
          /\ Caught => Has(Did("shot", "runtime_error"))
    /\ (Caught /\ Has(Did("run", "cleanup"))) =>
          /\ Before(Did("run", "caught"), Did("shot", "runtime_error"))
          /\ Before(Did("shot", "runtime_error"), Did("run", "cleanup"))
C3_NoErrorEscapes == []C3_Contained /\ <>Returned
\* the catch-all fired, the context failed to close, and run() returned
C3_Witness ==
    /\ Returned /\ Caught
    /\ Has(Ev("close", "context", FALSE))
    /\ Has(Did("run", "summary"))

\* C4: the send-code control is clicked at most once, the poller is called
\* at most once, the code field is typed into at most once, and what is typed
\* is the code the poller returned.
IsPrefix(p, q) == Len(p) <= Len(q) /\ SubSeq(q, 1, Len(p)) = p
C4_OneCodePerRun ==
    /\ Count("click", "send_code") <= 1
    /\ Count("poller", "call") <= 1
    /\ Count("type", "code") <= 1
    /\ Count("type", "code") = 1 =>
          /\ Count("poller", "call") = 1
          /\ Has(Ev("poller", "returned", TRUE))
          /\ verification_code # NoCode
    /\ Count("type", "code") = 0 => code_field = <<>>
    /\ IsPrefix(code_field, verification_code)
    /\ Has(Ev("type", "code", TRUE)) => code_field = verification_code
C4_Witness ==
    /\ Returned
    /\ Has(Ev("type", "code", TRUE))
    /\ Has(Ev("click", "send_code", TRUE))
    /\ code_field = CodeB

\* C5: a login form that is not found, a code box that is not found, a poller
\* that returns nothing and a post-login URL mismatch each abort the run: no
\* later workflow step is performed, the catch-all takes its screenshot,
\* cleanup runs and the status stays Unknown.
FormMissing == Has(Ev("find", "login_form", FALSE))
CodeBoxMissing == Has(Ev("find", "code_box", FALSE))
NoCodeObtained == Has(Ev("poller", "returned", FALSE))
PostLoginMismatch == Has(Ev("check", "post_login", FALSE))
C5_FatalFailuresAbort ==
    /\ FormMissing =>
          /\ \A e \in {"click", "check", "poller", "type"} :
                \A i \in DOMAIN log : log[i].ev # e
    /\ CodeBoxMissing =>
          /\ Count("poller", "call") = 0
          /\ Count("type", "code") = 0
          /\ Count("check", "post_login") = 0
    /\ NoCodeObtained =>
          /\ Count("type", "code") = 0
          /\ Count("click", "code_submit") = 0
          /\ Count("check", "post_login") = 0
    /\ (FormMissing \/ CodeBoxMissing \/ NoCodeObtained \/ PostLoginMismatch) =>
          /\ Untouched(RenewalControls)
          /\ renewal_status = "Unknown"
          /\ ~Completed
          /\ pc \in {"run_login_failed", "run_except", "cleanup", "run_finally",
                     "run_exit", "done"}
          /\ Unwinding => Caught /\ Has(Did("shot", "runtime_error"))
          /\ Returned => Has(Did("run", "cleanup"))
\* the poller returned nothing and the run was aborted
C5_Witness ==
    /\ Returned /\ NoCodeObtained /\ Caught
    /\ Has(Did("shot", "runtime_error"))
    /\ Has(Did("run", "cleanup"))

\* C6: the post-login check passes for the success URL only, not for the
\* success URL with a query string added; every other check passes exactly
\* for the URLs that contain its fragment, the ones with a query string
\* included.
WithQuery(u) == u \o <<Query>>
PassingURLs(name) ==
    CASE name = "verification" ->
            {TARGET_URL \o verification_fragment,
             WithQuery(TARGET_URL \o verification_fragment)}
      [] name = "code_input" ->
            {TARGET_URL \o code_input_fragment,
             WithQuery(TARGET_URL \o code_input_fragment)}
      [] name = "diagnosis" ->
            {TARGET_URL \o code_input_fragment,
             WithQuery(TARGET_URL \o code_input_fragment)}
      [] name = "game" -> {expected_game_url, WithQuery(expected_game_url)}
      [] name = "extend_index" -> {extend_index_url, WithQuery(extend_index_url)}
      [] name = "extend_input" -> {extend_input_url, WithQuery(extend_input_url)}
      [] name = "extend_complete" ->
            {extend_complete_url, WithQuery(extend_complete_url)}
      [] name = "post_login" -> {success_url}
      [] OTHER -> {}
C6_AsymmetricMatching ==
    /\ checked.passed = (checked.url \in PassingURLs(checked.name))
    /\ (checked.name = "post_login" /\ checked.url = WithQuery(success_url)) =>
          pc = "run_login_failed"
    /\ PostLoginMismatch => Untouched(RenewalControls) /\ ~Completed
\* after a code-entry check that passed, the success URL with a query string
\* failed the post-login check
C6_Witness ==
    /\ checked = Check("post_login", WithQuery(success_url), FALSE)
    /\ Has(Ev("check", "code_input", TRUE))
    /\ pc = "run_login_failed"

\* C7: once the probe has located the restriction message, no extension
\* control is touched, and the run ends with status Unexpired and no new
\* expiry.
RestrictionLocated == Has(Ev("find", "restriction", TRUE))
C7_RestrictionStops ==
    RestrictionLocated =>
        /\ Untouched(ExtensionControls)
        /\ Returned => renewal_status = "Unexpired" /\ new_expiry_time = None

\* C8: after the final extend click went through and the extend-complete
\* check was made, the status is Success when the URL contains the
\* extend-complete fragment and Failed when it does not.
C8_StatusFromCompleteCheck ==
    (Has(Ev("click", "final_extend", TRUE)) /\ pc # "verify_extension_complete") =>
        /\ checked.name = "extend_complete"
        /\ renewal_status =
              IF checked.url \in {extend_complete_url, WithQuery(extend_complete_url)}
              THEN "Success" ELSE "Failed"
\* the extension completed and the new expiry date could not be read
C8_Witness ==
    /\ Returned
    /\ renewal_status = "Success"
    /\ new_expiry_time = None
    /\ Has(Ev("read", "new_expiry", FALSE))

\* C9 as stated: after a game-management URL mismatch the workflow still
\* reads the expiry text and goes on to the upgrade control.
GameMismatch == Has(Ev("check", "game", FALSE))
C9_ContinuesAfterMismatch ==
    (GameMismatch /\ Unwinding) =>
        /\ Count("read", "expiry") = 1
        /\ Count("find", "upgrade") = 1

\* C9 amended: a game-management URL mismatch is not fatal (the catch-all
\* does not fire and the run is reported as completed), but the renewal
\* chain is skipped: the expiry text is not read, no upgrade or extension
\* control is touched, and the outcome stays as initialised.
C9_MismatchSkipsRenewal ==
    GameMismatch =>
        /\ ~Caught
        /\ pc \in {"run_complete", "cleanup", "run_finally", "run_exit", "done"}
        /\ Unwinding => Completed
        /\ Count("read", "expiry") = 0
        /\ Untouched(RenewalControls \ {"game"})
        /\ renewal_status = "Unknown"
        /\ old_expiry_time = None
        /\ new_expiry_time = None
C9_Witness ==
    /\ Returned /\ GameMismatch /\ Completed
    /\ Has(Did("shot", "game_page_redirect_failed"))

\* C10: when the poller has returned and had opened a mailbox connection, it
\* has logged out of it.
PollerReturned ==
    /\ Has(Did("poller", "call"))
    /\ pc \notin {"get_verification_code_from_imap", "fetch_message"}
C10_LogoutOnEveryPath ==
    (PollerReturned /\ Has(Ev("imap", "connect", TRUE))) =>
        /\ Count("imap", "logout") >= 1
        /\ mail = "closed"

\* C11: an error raised inside the poller is caught by its own except
\* clauses and the poller returns nothing; the workflow only sees that no
\* code was obtained.
InPoller == pc \in {"get_verification_code_from_imap", "fetch_message"}
PollerFailed ==
    \/ \E op \in {"connect", "login", "select", "logout"} : Has(Ev("imap", op, FALSE))
    \/ Has(Ev("poller", "except", TRUE))
    \/ Has(Ev("poller", "except", FALSE))
C11_PollerContainsErrors ==
    /\ ~Has(Ev("poller", "except", FALSE))
    /\ (PollerFailed /\ ~InPoller) =>
          /\ Has(Ev("poller", "except", TRUE))
          /\ verification_code = NoCode
          /\ pc # "handle_code_input_page_resume" => NoCodeObtained
    /\ (PollerReturned /\ pc # "handle_code_input_page_resume") =>
          Count("poller", "returned") = 1
\* the mail server rejected the login and the run was aborted for want of a code
C11_Witness ==
    /\ Returned
    /\ Has(Ev("imap", "login", FALSE))
    /\ Has(Ev("poller", "except", TRUE))
    /\ NoCodeObtained

\* C12: no browser action is performed twice, and the poller connects,
\* authenticates and searches at most once.
Controls == {"login_submit", "send_code", "code_submit", "game", "upgrade",
             "extend", "confirm", "final_extend"}
C12_NothingRetried ==
    /\ \A w \in Controls : Count("click", w) <= 1
    /\ Count("goto", "login") <= 1
    /\ Count("type", "code") <= 1
    /\ Count("poller", "call") <= 1
    /\ \A op \in {"connect", "login", "select", "search"} : Count("imap", op) <= 1
\* a run in which every control was clicked and the mailbox was searched
C12_Witness ==
    /\ Returned
    /\ \A w \in Controls : Count("click", w) = 1
    /\ Count("imap", "search") = 1

\* C13: with no message from the sender the poller returns nothing without
\* raising; with messages none of whose subjects matches it returns nothing
\* after it has fetched and examined every one of them.
C13_EmptyOrUnmatched ==
    PollerReturned =>
        /\ (Has(Ev("imap", "search", TRUE)) /\ Count("imap", "found") = 0) =>
              /\ Count("imap", "fetch") = 0
              /\ Count("imap", "logout") = 1
              /\ verification_code = NoCode
              /\ ~Has(Ev("poller", "except", FALSE))
        /\ ( /\ Count("imap", "found") > 0
             /\ ~Has(Did("imap", "subject"))
             /\ ~Has(Ev("imap", "fetch", FALSE))
             /\ ~Has(Ev("poller", "except", TRUE)) ) =>
              /\ Count("imap", "fetch") = Count("imap", "found")
              /\ Count("imap", "subject") = Count("imap", "found")
              /\ verification_code = NoCode
              /\ CountOk("imap", "logout") = 1
              /\ \A i \in DOMAIN log :
                    log[i] = Did("imap", "fetch") => i < Index(Did("imap", "logout"))
\* two messages, neither with a matching subject, were both examined
C13_Witness ==
    /\ pc = "handle_code_input_page_resume"
    /\ Count("imap", "found") = 2
    /\ Count("imap", "fetch") = 2
    /\ CountOk("imap", "subject") = 0
    /\ Count("imap", "subject") = 2
    /\ CountOk("imap", "logout") = 1

\* C14: logout is never called twice; the extractor is consulted only after
\* the logout; a code that is returned comes from a label of the newest
\* fetched message, whose subject matched, and the session was logged out
\* exactly once.
C14_Inv ==
    /\ Count("imap", "logout") <= 1
    /\ (InPoller \/ PollerReturned) =>
          (Has(Did("extract", "code")) =>
              Before(Did("imap", "logout"), Did("extract", "code")))
    /\ verification_code # NoCode =>
          /\ Has(Did("imap", "subject"))
          /\ Has(Did("extract", "code"))
          /\ CountOk("imap", "logout") = 1
          /\ mail = "closed"
          /\ 4 <= Len(verification_code) /\ Len(verification_code) <= 8
C14_Step ==
    (pc = "fetch_message" /\ verification_code' # NoCode) =>
        LET msg == mail_ids[Len(mail_ids)]
        IN  /\ msg.status = "OK"
            /\ msg.subject = MatchingSubject
            /\ \E i \in DOMAIN msg.body :
                  /\ msg.body[i].label
                  /\ IsPrefix(verification_code', msg.body[i].digits)
Occurrences(text) == { i \in DOMAIN text : text[i].label }
ExtractedFrom == mail_ids[1].body
C15_ShortOrLongRunRejected ==
    ( /\ pc = "extracted"
      /\ Cardinality(Occurrences(ExtractedFrom)) = 1
      /\ \A i \in Occurrences(ExtractedFrom) : Len(ExtractedFrom[i].digits) \in {3, 9} )
    => verification_code = NoCode

\* C16: the extractor returns the whole digit run of the first occurrence
\* whose run has 4 to 8 digits, skipping shorter and longer runs before it.
FirstValidRun(text) ==
    LET valid == { i \in Occurrences(text) :
                     4 <= Len(text[i].digits) /\ Len(text[i].digits) <= 8 }
    IN  IF valid = {} THEN NoCode
        ELSE text[CHOOSE i \in valid : \A j \in valid : i <= j].digits
C16_FirstValidRun ==
    pc = "extracted" => verification_code = FirstValidRun(ExtractedFrom)

\* C17: with a required credential missing the run ends at once: nothing is
\* done after the validation, no browser exists and no mailbox connection.
C17_MissingCredentialEndsRun ==
    (pc # "validate_config" /\ \E k \in ConfigKeys : ~cfg[k]) =>
        /\ pc = "done"
        /\ log = <<Ev("config", "validate", FALSE)>>
        /\ browser = None /\ context = None /\ page = None
        /\ mail = "none"
        /\ checked.name = "none"
\* only the mailbox password is missing
C17_Witness ==
    /\ Returned
    /\ ~cfg["imap_password"]
    /\ \A k \in ConfigKeys \ {"imap_password"} : cfg[k]

\* C18: the status starts as Unknown and only ever changes from Unknown to
\* Unexpired, Success or Failed; an expiry that is set is never changed.
C18_Step ==
    /\ renewal_status' # renewal_status =>
          /\ renewal_status = "Unknown"
          /\ renewal_status' \in {"Unexpired", "Success", "Failed"}
    /\ old_expiry_time # None => old_expiry_time' = old_expiry_time
    /\ new_expiry_time # None => new_expiry_time' = new_expiry_time
C18_Start ==
    pc \in {"validate_config", "setup_browser"} =>
        /\ renewal_status = "Unknown"
        /\ old_expiry_time = None
        /\ new_expiry_time = None
C18_OutcomeNeverReset == []C18_Start /\ [][C18_Step]_vars
\* a renewal that succeeded, with both dates read
C18_Witness ==
    /\ Returned
    /\ renewal_status = "Success"
    /\ old_expiry_time # None
    /\ new_expiry_time # None

\* C19: after an extend-index or extend-input URL mismatch no further control
\* is touched, the catch-all does not fire, and status, previous expiry and
\* new expiry stay as they were (the status is not Failed).
IndexMismatch == Has(Ev("check", "extend_index", FALSE))
InputMismatch == Has(Ev("check", "extend_input", FALSE))
C19_Inv ==
    /\ IndexMismatch =>
          /\ Untouched(ExtensionControls)
          /\ Count("find", "restriction") = 0
    /\ InputMismatch =>
          /\ Untouched({"confirm", "final_extend"})
          /\ Count("click", "extend") = 1
    /\ (IndexMismatch \/ InputMismatch) =>
          /\ ~Caught /\ ~escaped
          /\ renewal_status = "Unknown"
          /\ new_expiry_time = None
          /\ pc \in {"run_complete", "cleanup", "run_finally", "run_exit", "done"}
          /\ Unwinding => Completed
C19_Step == (IndexMismatch \/ InputMismatch)' => UNCHANGED outcome
C19_MismatchStopsSubflow == []C19_Inv /\ [][C19_Step]_vars
\* the extend click led to another page, after the previous expiry was read
C19_Witness ==
    /\ Returned /\ InputMismatch /\ Completed
    /\ old_expiry_time # None

\* C20: when the URL after the send-code click is not the code-entry page,
\* the poller is never called, no code is typed, and the workflow goes on to
\* the post-login check.
NoCodePage == Has(Ev("check", "code_input", FALSE))
C20_VacuousOtpBranch ==
    NoCodePage =>
        /\ Count("poller", "call") = 0
        /\ Count("type", "code") = 0
        /\ code_field = <<>>
        /\ mail = "none"
        /\ pc = "handle_login_result" \/ Count("check", "post_login") = 1
        /\ Caught => PostLoginMismatch
\* the code was sent, no code page appeared, and the login was accepted
C20_Witness ==
    /\ Returned /\ NoCodePage
    /\ Has(Ev("click", "send_code", TRUE))
    /\ Has(Ev("check", "post_login", TRUE))

\* C21: the poller goes through the messages from the most recent to the
\* oldest, and the most recent fetched message whose subject contains the
\* fragment decides its result: the poller returns at that message, and it
\* returns nothing when the body is empty or holds no valid code (no label
\* followed by a run of 4 to 8 digits).
C21_Step ==
    (pc = "fetch_message" /\ mail_ids # <<>>) =>
        LET msg == mail_ids[Len(mail_ids)]
        IN  /\ pc' = "fetch_message" => mail_ids' = SubSeq(mail_ids, 1, Len(mail_ids) - 1)
            /\ (msg.status = "OK" /\ subject_matches(decode_subject(msg.subject))) =>
                  /\ pc' # "fetch_message"
                  /\ mail_ids' = <<>>
                  /\ FirstValidRun(msg.body) = NoCode => verification_code' = NoCode
C21_NewestMatchDecides == [](CountOk("imap", "subject") <= 1) /\ [][C21_Step]_vars

\* C22: once the post-login check has passed, no later failure aborts the
\* run: the catch-all does not fire, the run is reported as completed, and a
\* failed step leaves a status other than Success.
PostLoginPassed == Has(Ev("check", "post_login", TRUE))
LaterFailure ==
    \/ \E w \in RenewalControls : Has(Ev("find", w, FALSE)) \/ Has(Ev("click", w, FALSE))
    \/ \E c \in {"game", "extend_index", "extend_input", "extend_complete"} :
          Has(Ev("check", c, FALSE))
C22_LaterFailuresNotFatal ==
    PostLoginPassed =>
        /\ ~Caught /\ ~escaped /\ exc = None
        /\ pc \notin {"run_login_failed", "run_except"}
        /\ Unwinding => Completed
        /\ (Unwinding /\ LaterFailure) => renewal_status \in {"Unknown", "Failed"}
\* the extend-complete check failed and the run was reported as completed
C22_Witness ==
    /\ Returned /\ PostLoginPassed /\ Completed
    /\ Has(Ev("check", "extend_complete", FALSE))
    /\ renewal_status = "Failed"

\* C23: the extension sub-flow is started only when the wait for the
\* restriction message did not find it.
ExtensionStarted == Has(Did("call", "perform_extension_operation"))
C23_ExtensionOnlyAfterTimeout ==
    ExtensionStarted => Has(Ev("find", "restriction", FALSE))

\* C24: the final extend click happens only after, in this order, the
\* post-login check passed, the game-management check passed, the
\* extend-index check passed, the restriction probe did not find the
\* message, the extend-input check passed and the confirmation click.
C24_FinalClickPreconditions ==
    Has(Did("click", "final_extend")) \/ Has(Ev("click", "final_extend", FALSE)) =>
        /\ Before(Ev("check", "post_login", TRUE), Ev("check", "game", TRUE))
        /\ Before(Ev("check", "game", TRUE), Ev("check", "extend_index", TRUE))
        /\ Before(Ev("check", "extend_index", TRUE), Ev("find", "restriction", FALSE))
        /\ Before(Ev("find", "restriction", FALSE), Ev("check", "extend_input", TRUE))
        /\ Before(Ev("check", "extend_input", TRUE), Ev("click", "confirm", TRUE))
        /\ \A i \in DOMAIN log :
              (log[i].ev = "click" /\ log[i].what = "final_extend") =>
                  Index(Ev("click", "confirm", TRUE)) < i

\* C25: status Failed implies that the final extend click was performed; a
\* failure at the extend, confirmation or final extend control leaves the
\* status Unknown.
ExtensionControlFailed ==
    \E w \in ExtensionControls : Has(Ev("find", w, FALSE)) \/ Has(Ev("click", w, FALSE))
C25_FailedOnlyAfterFinalClick ==
    /\ renewal_status = "Failed" =>
          /\ Has(Ev("click", "final_extend", TRUE))
          /\ Has(Ev("check", "extend_complete", FALSE))
    /\ ExtensionControlFailed =>
          /\ renewal_status = "Unknown"
          /\ new_expiry_time = None
\* the final extend control was found but the click on it failed
C25_Witness ==
    /\ Returned
    /\ Has(Ev("click", "final_extend", FALSE))
    /\ renewal_status = "Unknown"

\* C26: the new expiry is set only with status Success, and the previous
\* expiry only after the post-login check and the game-management check
\* passed; with any other status the new expiry is unset.
C26_ExpiriesOnlyWhenEarned ==
    /\ new_expiry_time # None => renewal_status = "Success"
    /\ old_expiry_time # None =>
          /\ PostLoginPassed
          /\ Has(Ev("check", "game", TRUE))
    /\ renewal_status \in {"Unknown", "Unexpired", "Failed"} => new_expiry_time = None
\* the new expiry was read although the previous one could not be
C26_Witness ==
    /\ Returned
    /\ new_expiry_time # None
    /\ old_expiry_time = None
    /\ renewal_status = "Success"

====
